---- MODULE Spec2Model ----
(***************************************************************************)
(* Model of scripts/dedupe-openapi.mjs: the OpenAPI parameter              *)
(* deduplicator (getParameterKey, chooseBetterParameter,                   *)
(* deduplicateParameters, processOperation, processOpenAPISpec) and the    *)
(* run of main (read, parse, transform, write, count, exit).               *)
(*                                                                         *)
(* JSON values are modelled structurally.  An optional field is a sequence *)
(* of length 0 (absent / undefined / null) or 1 (present).                 *)
(***************************************************************************)
EXTENDS Integers, Sequences, FiniteSets, TLC

None == <<>>
Some(v) == <<v>>
IsSome(o) == o # <<>>
Get(o) == o[1]

\* JavaScript truthiness of an optional string field: absent and "" are falsy.
Truthy(o) == IsSome(o) /\ Get(o) # ""

\* `value || ''` on an optional string field.
OrEmpty(o) == IF Truthy(o) THEN Get(o) ELSE ""

(***************************************************************************)
(* Parameters.                                                             *)
(*   ref         : optional string   ($ref)                                *)
(*   in, name    : optional string                                         *)
(*   schema      : optional [ref : optional string, fields : Seq(STRING)]  *)
(*                 each element of fields is one serialized member         *)
(*   description : optional string                                         *)
(*   extra       : the names of the other top-level fields                 *)
(***************************************************************************)
Param(ref, in, name, schema, description, extra) ==
    [ref |-> ref, in |-> in, name |-> name, schema |-> schema,
     description |-> description, extra |-> extra]

Schema(ref, fields) == [ref |-> ref, fields |-> fields]

RECURSIVE Join(_)
Join(members) ==
    IF Len(members) = 0 THEN ""
    ELSE IF Len(members) = 1 THEN members[1]
    ELSE members[1] \o "," \o Join(Tail(members))

\* JSON.stringify of a schema object.
JsonStringifySchema(schema) ==
    LET refMember == IF IsSome(schema.ref)
                     THEN << "\"$ref\":\"" \o Get(schema.ref) \o "\"" >>
                     ELSE << >>
    IN  "{" \o Join(refMember \o schema.fields) \o "}"

\* Object.keys(schema).length
SchemaKeyCount(schema) ==
    Len(schema.fields) + (IF IsSome(schema.ref) THEN 1 ELSE 0)

\* Object.keys(param).length
ParamKeyCount(param) ==
      (IF IsSome(param.ref) THEN 1 ELSE 0)
    + (IF IsSome(param.in) THEN 1 ELSE 0)
    + (IF IsSome(param.name) THEN 1 ELSE 0)
    + (IF IsSome(param.schema) THEN 1 ELSE 0)
    + (IF IsSome(param.description) THEN 1 ELSE 0)
    + Len(param.extra)

\* Faulty variant: the schema is part of every inline key.
getParameterKeyWithSchema(param) ==
    IF Truthy(param.ref) THEN "$ref:" \o Get(param.ref)
    ELSE OrEmpty(param.in) \o ":" \o OrEmpty(param.name) \o ":"
           \o (IF IsSome(param.schema)
               THEN JsonStringifySchema(Get(param.schema)) ELSE "{}")

getParameterKey(param) ==
    IF Truthy(param.ref) THEN "$ref:" \o Get(param.ref)
    ELSE LET inValue == OrEmpty(param.in)
             name    == OrEmpty(param.name)
         IN  IF inValue = "" \/ name = ""
             THEN LET schemaKey ==
                        IF IsSome(param.schema) /\ Truthy(Get(param.schema).ref)
                        THEN "schema:$ref:" \o Get(Get(param.schema).ref)
                        ELSE IF IsSome(param.schema)
                             THEN JsonStringifySchema(Get(param.schema))
                             ELSE "{}"
                  IN  inValue \o ":" \o name \o ":" \o schemaKey
             ELSE inValue \o ":" \o name

\* Faulty variant: the description rule is consulted before the schema rule.
MoreCompleteDescriptionFirst(param1, param2) ==
    LET schema1Keys == IF IsSome(param1.schema)
                       THEN SchemaKeyCount(Get(param1.schema)) ELSE 0
        schema2Keys == IF IsSome(param2.schema)
                       THEN SchemaKeyCount(Get(param2.schema)) ELSE 0
        keys1 == ParamKeyCount(param1)
        keys2 == ParamKeyCount(param2)
    IN  IF Truthy(param1.description) /\ ~Truthy(param2.description) THEN param1
        ELSE IF Truthy(param2.description) /\ ~Truthy(param1.description) THEN param2
        ELSE IF schema1Keys > schema2Keys THEN param1
        ELSE IF schema2Keys > schema1Keys THEN param2
        ELSE IF keys1 > keys2 THEN param1
        ELSE IF keys2 > keys1 THEN param2
        ELSE param1

\* chooseBetterParameter below its $ref rule: schema properties, then
\* description, then properties overall, then the first parameter.
MoreComplete(param1, param2) ==
    LET schema1Keys == IF IsSome(param1.schema)
                       THEN SchemaKeyCount(Get(param1.schema)) ELSE 0
        schema2Keys == IF IsSome(param2.schema)
                       THEN SchemaKeyCount(Get(param2.schema)) ELSE 0
        keys1 == ParamKeyCount(param1)
        keys2 == ParamKeyCount(param2)
    IN  IF schema1Keys > schema2Keys THEN param1
        ELSE IF schema2Keys > schema1Keys THEN param2
        ELSE IF Truthy(param1.description) /\ ~Truthy(param2.description) THEN param1
        ELSE IF Truthy(param2.description) /\ ~Truthy(param1.description) THEN param2
        ELSE IF keys1 > keys2 THEN param1
        ELSE IF keys2 > keys1 THEN param2
        ELSE param1

\* Faulty variant: the $ref rule is missing.
chooseBetterParameterNoRefRule(param1, param2) == MoreComplete(param1, param2)

chooseBetterParameter(param1, param2) ==
    IF Truthy(param1.ref) /\ ~Truthy(param2.ref) THEN param1
    ELSE IF Truthy(param2.ref) /\ ~Truthy(param1.ref) THEN param2
    ELSE MoreComplete(param1, param2)

\* result.indexOf(existing): the first position holding it, 0 when there is none.
IndexOf(result, existing) ==
    IF \E i \in 1..Len(result) : result[i] = existing
    THEN CHOOSE i \in 1..Len(result) :
            /\ result[i] = existing
            /\ \A j \in 1..(i - 1) : result[j] # existing
    ELSE 0

\* seen.set(key, param)
MapSet(seen, key, param) ==
    [k \in (DOMAIN seen) \cup {key} |-> IF k = key THEN param ELSE seen[k]]

\* Faulty variant: a later duplicate that wins is appended instead of replacing the
\* retained one in place.
DedupStepAppendWinner(st, param) ==
    LET key == getParameterKey(param)
    IN  IF key \notin DOMAIN st.seen
        THEN [seen |-> MapSet(st.seen, key, param),
              result |-> Append(st.result, param)]
        ELSE LET existing == st.seen[key]
                 better   == chooseBetterParameter(existing, param)
                 index    == IndexOf(st.result, existing)
             IN  IF better # existing /\ index # 0
                 THEN [seen |-> MapSet(st.seen, key, better),
                       result |-> Append(
                           SubSeq(st.result, 1, index - 1)
                             \o SubSeq(st.result, index + 1, Len(st.result)),
                           better)]
                 ELSE st

\* One iteration of the loop of deduplicateParameters over `param`, on the
\* loop state st = [seen, result].
DedupStep(st, param) ==
    LET key == getParameterKey(param)
    IN  IF key \notin DOMAIN st.seen
        THEN [seen |-> MapSet(st.seen, key, param),
              result |-> Append(st.result, param)]
        ELSE LET existing == st.seen[key]
                 better   == chooseBetterParameter(existing, param)
                 index    == IndexOf(st.result, existing)
             IN  IF better # existing /\ index # 0
                 THEN [seen |-> MapSet(st.seen, key, better),
                       result |-> [st.result EXCEPT ![index] = better]]
                 ELSE st

EmptyLoopState == [seen |-> << >>, result |-> << >>]

RECURSIVE DedupLoop(_, _, _)
DedupLoop(st, parameters, i) ==
    IF i > Len(parameters) THEN st
    ELSE DedupLoop(DedupStep(st, parameters[i]), parameters, i + 1)

deduplicateParameters(parameters) ==
    IF Len(parameters) = 0 THEN parameters
    ELSE DedupLoop(EmptyLoopState, parameters, 1).result

(***************************************************************************)
(* Documents.                                                              *)
(*   operation : [id : STRING, parameters : optional Seq(Param)]           *)
(*               id stands for the operation's other fields                *)
(*   pathItem  : [parameters : optional Seq(Param),                        *)
(*                ops : function from the verbs present to operations]     *)
(*   paths     : Seq([path : STRING, item : optional pathItem])            *)
(*               in Object.entries order; an absent item is JSON null      *)
(*   document  : optional [paths : optional paths]; absent is JSON null    *)
(***************************************************************************)
httpMethods ==
    << "get", "post", "put", "delete", "patch", "head", "options", "trace" >>

HttpMethodSet == {httpMethods[i] : i \in 1..Len(httpMethods)}

\* `list || []`
OrEmptyList(o) == IF IsSome(o) THEN Get(o) ELSE << >>

\* Faulty variant: an operation left without parameters keeps an empty list.
processOperationKeepEmpty(operation, pathParameters) ==
    LET allParameters == pathParameters \o OrEmptyList(operation.parameters)
    IN  [operation EXCEPT !.parameters = Some(deduplicateParameters(allParameters))]

\* Faulty variant: the merged list is assigned without being deduplicated.
processOperationNoDedup(operation, pathParameters) ==
    LET allParameters == pathParameters \o OrEmptyList(operation.parameters)
    IN  [operation EXCEPT !.parameters =
            IF Len(allParameters) = 0 THEN None ELSE Some(allParameters)]

processOperation(operation, pathParameters) ==
    LET allParameters == pathParameters \o OrEmptyList(operation.parameters)
        deduped       == deduplicateParameters(allParameters)
    IN  [operation EXCEPT !.parameters =
            IF Len(deduped) = 0 THEN None ELSE Some(deduped)]

\* delete ops[verb]
DeleteVerb(ops, verb) == [v \in (DOMAIN ops) \ {verb} |-> ops[v]]

\* ops[verb] = operation
SetVerb(ops, verb, operation) ==
    [v \in (DOMAIN ops) \cup {verb} |-> IF v = verb THEN operation ELSE ops[v]]

\* Faulty variant: "search" always replaces "post".
RenameOrDropSearchOverwrite(ops) ==
    IF "search" \in DOMAIN ops
    THEN DeleteVerb(SetVerb(ops, "post", ops["search"]), "search")
    ELSE ops

\* The handling of the non-standard "search" method of one path item.
RenameOrDropSearch(ops) ==
    IF "search" \in DOMAIN ops
    THEN IF "post" \notin DOMAIN ops
         THEN DeleteVerb(SetVerb(ops, "post", ops["search"]), "search")
         ELSE DeleteVerb(ops, "search")
    ELSE ops

\* The loop over httpMethods of one path item, from position i on.
RECURSIVE ProcessMethods(_, _, _)
ProcessMethods(ops, pathParameters, i) ==
    IF i > Len(httpMethods) THEN ops
    ELSE LET method == httpMethods[i]
         IN  IF method \in DOMAIN ops
             THEN ProcessMethods(
                    [ops EXCEPT ![method] = processOperation(ops[method], pathParameters)],
                    pathParameters, i + 1)
             ELSE ProcessMethods(ops, pathParameters, i + 1)

\* The body of the loop over the entries of paths.
ProcessPathItem(item) ==
    IF ~IsSome(item) THEN item
    ELSE LET pathItem       == Get(item)
             ops1           == RenameOrDropSearch(pathItem.ops)
             pathParameters == OrEmptyList(pathItem.parameters)
         IN  Some([pathItem EXCEPT !.ops = ProcessMethods(ops1, pathParameters, 1)])

ProcessPaths(paths) ==
    [i \in 1..Len(paths) |-> [paths[i] EXCEPT !.item = ProcessPathItem(paths[i].item)]]

(***************************************************************************)
(* The heap holds the document objects by address, so that a document      *)
(* handed to processOpenAPISpec and the one it returns may or may not be   *)
(* the same object.                                                        *)
(***************************************************************************)

\* Faulty variant: no copy is made; the transformation works on the caller's object.
DeepCopyAlias(heap, addr, fresh) == [heap |-> heap, addr |-> addr]

\* JSON.parse(JSON.stringify(spec)): a structurally equal tree at a fresh
\* address.
DeepCopy(heap, addr, fresh) ==
    [heap |-> (fresh :> heap[addr]) @@ heap, addr |-> fresh]

\* spec.paths is read first: a null document raises a TypeError.
processOpenAPISpecThrows(heap, spec) == ~IsSome(heap[spec])

\* The heap after the call and the address of the returned document.
processOpenAPISpec(heap, spec, fresh) ==
    IF ~IsSome(Get(heap[spec]).paths)
    THEN [heap |-> heap, ret |-> spec]
    ELSE LET copy          == DeepCopy(heap, spec, fresh)
             processedSpec == Get(copy.heap[copy.addr])
         IN  [heap |-> [copy.heap EXCEPT ![copy.addr] =
                          Some([processedSpec EXCEPT !.paths =
                                  Some(ProcessPaths(Get(processedSpec.paths)))])],
              ret  |-> copy.addr]

(***************************************************************************)
(* The counts main reports.                                                *)
(***************************************************************************)
RECURSIVE SumSeq(_)
SumSeq(ns) == IF Len(ns) = 0 THEN 0 ELSE Head(ns) + SumSeq(Tail(ns))

\* pathItem[method]?.parameters is truthy (an array, even an empty one, is).
HasOwnParameters(pathItem, method) ==
    method \in DOMAIN pathItem.ops /\ IsSome(pathItem.ops[method].parameters)

\* The first counting loop's contribution of one path item.
ItemParamsBefore(pathItem) ==
    LET pathParams == Len(OrEmptyList(pathItem.parameters))
    IN  SumSeq([i \in 1..Len(httpMethods) |->
            IF HasOwnParameters(pathItem, httpMethods[i])
            THEN pathParams + Len(Get(pathItem.ops[httpMethods[i]].parameters))
            ELSE 0])

\* The second counting loop's contribution of one path item.
ItemParamsAfter(pathItem) ==
    SumSeq([i \in 1..Len(httpMethods) |->
        IF HasOwnParameters(pathItem, httpMethods[i])
        THEN Len(Get(pathItem.ops[httpMethods[i]].parameters))
        ELSE 0])

\* `spec.paths || {}`
PathsOrEmpty(doc) == OrEmptyList(Get(doc).paths)

\* pathItem.parameters and pathItem[method] on a null path item raise a
\* TypeError.
CountThrows(doc) ==
    \E i \in 1..Len(PathsOrEmpty(doc)) : ~IsSome(PathsOrEmpty(doc)[i].item)

CountBefore(doc) ==
    SumSeq([i \in 1..Len(PathsOrEmpty(doc)) |->
        ItemParamsBefore(Get(PathsOrEmpty(doc)[i].item))])

CountAfter(doc) ==
    SumSeq([i \in 1..Len(PathsOrEmpty(doc)) |->
        ItemParamsAfter(Get(PathsOrEmpty(doc)[i].item))])

(***************************************************************************)
(* Bounded inputs.                                                         *)
(***************************************************************************)
MaxLen == 3
MaxParams == 3

SeqsUpTo(S, n) == UNION {[1..k -> S] : k \in 0..n}

Inline(in, name, schema, description, extra) ==
    Param(None, in, name, schema, description, extra)

IntegerType == "\"type\":\"integer\""
StringType  == "\"type\":\"string\""
EnumOneTwo  == "\"enum\":[1,2]"

PLimit     == Inline(Some("query"), Some("limit"), None, None, << >>)
PLimitInt  == Inline(Some("query"), Some("limit"),
                     Some(Schema(None, <<IntegerType>>)), None, << >>)
PLimitStr  == Inline(Some("query"), Some("limit"),
                     Some(Schema(None, <<StringType>>)), None, << >>)
PLimitEnum == Inline(Some("query"), Some("limit"),
                     Some(Schema(None, <<IntegerType, EnumOneTwo>>)), None, << >>)
PLimitDesc == Inline(Some("query"), Some("limit"), None, Some("page size"), << >>)
PLimitIntDesc == Inline(Some("query"), Some("limit"),
                     Some(Schema(None, <<IntegerType>>)), Some("page size"), << >>)
PLimitEmptyDesc == Inline(Some("query"), Some("limit"), None, Some(""), << >>)
PLimitWide == Inline(Some("query"), Some("limit"), None, None,
                     <<"required", "example">>)
POffset    == Inline(Some("query"), Some("offset"), None, None, << >>)
PRef       == Param(Some("X"), None, None, None, None, << >>)
PRefNamed  == Param(Some("Limit"), Some("query"), Some("limit"), None, None, << >>)
PInRef     == Inline(Some("$ref"), Some("X"), None, None, << >>)
PNoNameInt == Inline(Some("query"), None, Some(Schema(None, <<IntegerType>>)),
                     None, << >>)
PNoNameStr == Inline(Some("query"), None, Some(Schema(None, <<StringType>>)),
                     None, << >>)
PEmptyNameInt == Inline(Some("query"), Some(""), Some(Schema(None, <<IntegerType>>)),
                     Some("unnamed"), << >>)

\* The parameters the lists handed to deduplicateParameters are drawn from.
ParamSamples ==
    { PLimit, PLimitInt, PLimitStr, PLimitEnum, PLimitDesc, PLimitIntDesc,
      PLimitEmptyDesc, PLimitWide, POffset, PRef, PRefNamed, PInRef,
      PNoNameInt, PNoNameStr, PEmptyNameInt }

\* The parameters the documents are built from.
DocParams == { PLimit, PLimitEnum, PRefNamed, PNoNameInt, PNoNameStr }

InputVerbs == <<"search", "post", "get">>

\* How a slot of a path item (its own parameters, or one verb) is declared:
\* not at all, as an operation without a parameters field, or with a list.
SlotModes == {"absent", "bare", "list"}

\* The path item whose path-level list is ps[1..cut[1]] and whose verbs'
\* lists are the next slices of ps, each declared as mode says.
BuildPathItem(ps, cut, pathMode, mode) ==
    LET slice(i) == SubSeq(ps, cut[i] + 1, cut[i + 1])
        present  == {i \in 1..Len(InputVerbs) : mode[i] # "absent"}
    IN  [parameters |-> IF pathMode = "list" THEN Some(SubSeq(ps, 1, cut[1])) ELSE None,
         ops |-> [v \in {InputVerbs[i] : i \in present} |->
                    LET i == CHOOSE j \in present : InputVerbs[j] = v
                    IN  [id |-> v \o "Operation",
                         parameters |-> IF mode[i] = "list"
                                        THEN Some(slice(i)) ELSE None]]]

\* Non-decreasing cut points of a list of length n into 1 + Len(InputVerbs)
\* slices; the last one is n.
Cuts(n) ==
    { c \in [1..(Len(InputVerbs) + 1) -> 0..n] :
        /\ c[Len(InputVerbs) + 1] = n
        /\ \A i \in 1..Len(InputVerbs) : c[i] <= c[i + 1] }

\* Every path item whose parameters, in declaration order, are ps.
PathItemsOf(ps) ==
    UNION { { BuildPathItem(ps, cut, pathMode, mode) :
                pathMode \in {m \in {"absent", "list"} :
                                cut[1] > 0 => m = "list"},
                mode \in {m \in [1..Len(InputVerbs) -> SlotModes] :
                            \A i \in 1..Len(InputVerbs) :
                                cut[i + 1] > cut[i] => m[i] = "list"} } :
            cut \in Cuts(Len(ps)) }

\* A second route: a null one, or a fixed one.
UsersItem ==
    [parameters |-> Some(<<PLimit>>),
     ops |-> [v \in {"search", "get"} |->
                [id |-> v \o "Users",
                 parameters |-> IF v = "get" THEN None ELSE Some(<<PLimitEnum>>)]]]

MorePaths ==
    { << [path |-> "/null", item |-> None] >>,
      << [path |-> "/users", item |-> Some(UsersItem)] >> }

\* One route declaring ps; for the empty ps also a second route after it, or
\* the second route alone.
PathsInputsOf(ps) ==
    { << [path |-> "/items", item |-> Some(pathItem)] >> : pathItem \in PathItemsOf(ps) }
      \cup (IF Len(ps) = 0
            THEN { << [path |-> "/items", item |-> Some(pathItem)] >> \o more :
                     pathItem \in PathItemsOf(ps), more \in MorePaths } \cup MorePaths
            ELSE {})

\* The documents with routes; for the empty ps also JSON null and a document
\* without paths.
DocumentsOf(ps) ==
    { Some([paths |-> Some(paths)]) : paths \in PathsInputsOf(ps) }
      \cup (IF Len(ps) = 0 THEN {None, Some([paths |-> None])} ELSE {})

\* The input file: a document, or (for the empty ps) missing or not JSON.
FilesOf(ps) ==
    { [kind |-> "json", value |-> d] : d \in DocumentsOf(ps) }
      \cup (IF Len(ps) = 0
            THEN { [kind |-> "missing", value |-> None],
                   [kind |-> "garbage", value |-> None] }
            ELSE {})

(***************************************************************************)
(* State.                                                                  *)
(*   pc                 position of the run                                *)
(*   file               the input file                                     *)
(*   heap               document objects by address                        *)
(*   processedSpec      address returned by processOpenAPISpec, if any     *)
(*   reprocessedSpec    address returned by a second pass, if any          *)
(*   output             the document written by this run, if any           *)
(*   exitCode           the exit status, once the process has ended        *)
(*   totalParamsBefore, totalParamsAfter   the reported counts             *)
(*   parameters, idx, loop                 deduplicateParameters' argument,*)
(*                      the loop position and [seen, result]               *)
(***************************************************************************)
VARIABLES pc, file, heap, processedSpec, reprocessedSpec, output, exitCode,
          totalParamsBefore, totalParamsAfter, parameters, idx, loop

vars == << pc, file, heap, processedSpec, reprocessedSpec, output, exitCode,
           totalParamsBefore, totalParamsAfter, parameters, idx, loop >>

mainVars  == << output, exitCode, totalParamsBefore, totalParamsAfter >>
dedupVars == << parameters, idx, loop >>

SpecAddr        == "spec"
ProcessedAddr   == "processedSpec"
ReprocessedAddr == "reprocessedSpec"

InitCommon ==
    /\ heap = << >>
    /\ processedSpec = None
    /\ reprocessedSpec = None
    /\ output = None
    /\ exitCode = None
    /\ totalParamsBefore = 0
    /\ totalParamsAfter = 0
    /\ parameters = << >>
    /\ idx = 1
    /\ loop = EmptyLoopState

(***************************************************************************)
(* main: one run of the script.                                            *)
(***************************************************************************)
Init ==
    /\ pc = "read"
    /\ \E ps \in SeqsUpTo(DocParams, MaxParams) : file \in FilesOf(ps)
    /\ InitCommon

\* readFileSync(inputPath)
ReadFile ==
    /\ pc = "read"
    /\ pc' = IF file.kind = "missing" THEN "catch" ELSE "parse"
    /\ UNCHANGED << file, heap, processedSpec, reprocessedSpec, mainVars, dedupVars >>

\* JSON.parse(rawContent)
ParseFile ==
    /\ pc = "parse"
    /\ IF file.kind = "garbage"
       THEN pc' = "catch" /\ UNCHANGED heap
       ELSE pc' = "process" /\ heap' = (SpecAddr :> file.value)
    /\ UNCHANGED << file, processedSpec, reprocessedSpec, mainVars, dedupVars >>

\* processOpenAPISpec(spec)
Process ==
    /\ pc = "process"
    /\ IF processOpenAPISpecThrows(heap, SpecAddr)
       THEN pc' = "catch" /\ UNCHANGED << heap, processedSpec >>
       ELSE LET r == processOpenAPISpec(heap, SpecAddr, ProcessedAddr)
            IN  /\ heap' = r.heap
                /\ processedSpec' = Some(r.ret)
                /\ pc' = "write"
    /\ UNCHANGED << file, reprocessedSpec, mainVars, dedupVars >>

\* writeFileSync(outputPath, JSON.stringify(processedSpec, null, 2)): the
\* destination is writable or the call throws.
WriteFile ==
    /\ pc = "write"
    /\ \E writable \in BOOLEAN :
          IF writable
          THEN pc' = "count" /\ output' = Some(heap[Get(processedSpec)])
          ELSE pc' = "catch" /\ UNCHANGED output
    /\ UNCHANGED << file, heap, processedSpec, reprocessedSpec, exitCode,
                    totalParamsBefore, totalParamsAfter, dedupVars >>

\* The two counting loops and the summary line; the script then ends.
Count ==
    /\ pc = "count"
    /\ IF CountThrows(heap[SpecAddr])
       THEN pc' = "catch" /\ UNCHANGED << exitCode, totalParamsBefore, totalParamsAfter >>
       ELSE /\ totalParamsBefore' = CountBefore(heap[SpecAddr])
            /\ totalParamsAfter' = CountAfter(heap[Get(processedSpec)])
            /\ exitCode' = Some(0)
            /\ pc' = "done"
    /\ UNCHANGED << file, heap, processedSpec, reprocessedSpec, output, dedupVars >>

\* catch (error) { ...; process.exit(1) }
Catch ==
    /\ pc = "catch"
    /\ exitCode' = Some(1)
    /\ pc' = "failed"
    /\ UNCHANGED << file, heap, processedSpec, reprocessedSpec, output,
                    totalParamsBefore, totalParamsAfter, dedupVars >>

Next == ReadFile \/ ParseFile \/ Process \/ WriteFile \/ Count \/ Catch

Spec == Init /\ [][Next]_vars

(***************************************************************************)
(* processOpenAPISpec applied to a document and then to its own output.    *)
(***************************************************************************)
InitTwice ==
    /\ pc = "first"
    /\ \E ps \in SeqsUpTo(DocParams, MaxParams) :
          file \in { f \in FilesOf(ps) : f.kind = "json" /\ IsSome(f.value) }
    /\ heap = (SpecAddr :> file.value)
    /\ processedSpec = None
    /\ reprocessedSpec = None
    /\ output = None
    /\ exitCode = None
    /\ totalParamsBefore = 0
    /\ totalParamsAfter = 0
    /\ parameters = << >>
    /\ idx = 1
    /\ loop = EmptyLoopState

FirstPass ==
    /\ pc = "first"
    /\ LET r == processOpenAPISpec(heap, SpecAddr, ProcessedAddr)
       IN  heap' = r.heap /\ processedSpec' = Some(r.ret)
    /\ pc' = "second"
    /\ UNCHANGED << file, reprocessedSpec, mainVars, dedupVars >>

SecondPass ==
    /\ pc = "second"
    /\ LET r == processOpenAPISpec(heap, Get(processedSpec), ReprocessedAddr)
       IN  heap' = r.heap /\ reprocessedSpec' = Some(r.ret)
    /\ pc' = "twice"
    /\ UNCHANGED << file, processedSpec, mainVars, dedupVars >>

NextTwice == FirstPass \/ SecondPass

SpecTwice == InitTwice /\ [][NextTwice]_vars

(***************************************************************************)
(* deduplicateParameters on a list, one loop iteration per step.           *)
(***************************************************************************)
InitDedup ==
    /\ pc = "loop"
    /\ file = [kind |-> "missing", value |-> None]
    /\ heap = << >>
    /\ processedSpec = None
    /\ reprocessedSpec = None
    /\ output = None
    /\ exitCode = None
    /\ totalParamsBefore = 0
    /\ totalParamsAfter = 0
    /\ parameters \in SeqsUpTo(ParamSamples, MaxLen)
    /\ idx = 1
    /\ loop = EmptyLoopState

\* for (const param of parameters) { ... }
LoopIteration ==
    /\ pc = "loop"
    /\ idx <= Len(parameters)
    /\ loop' = DedupStep(loop, parameters[idx])
    /\ idx' = idx + 1
    /\ UNCHANGED << pc, file, heap, processedSpec, reprocessedSpec, mainVars, parameters >>

\* return result
LoopReturn ==
    /\ pc = "loop"
    /\ idx > Len(parameters)
    /\ pc' = "returned"
    /\ UNCHANGED << file, heap, processedSpec, reprocessedSpec, mainVars, dedupVars >>

NextDedup == LoopIteration \/ LoopReturn

SpecDedup == InitDedup /\ [][NextDedup]_vars

(***************************************************************************)
(* Properties of deduplicateParameters (SpecDedup).                        *)
(***************************************************************************)
KeysOf(list) == {getParameterKey(list[i]) : i \in 1..Len(list)}

\* The first position of key in list.
FirstIndexOfKey(list, key) ==
    CHOOSE i \in 1..Len(list) :
        /\ getParameterKey(list[i]) = key
        /\ \A j \in 1..(i - 1) : getParameterKey(list[j]) # key

IsReference(param) == Truthy(param.ref)

\* C2: once deduplicateParameters has returned, its result holds exactly one
\* parameter for each identity key of the input and none for another key, each
\* taken from the input's parameters of that key, it is no longer than the
\* input, its keys are in the order of their first occurrence in the input,
\* and for an input [A, B, A'] with key(A) = key(A') # key(B) it is
\* [winner(A, A'), B].
C2_ResultGuarantee ==
    pc = "returned" =>
        LET result == loop.result
        IN  /\ KeysOf(result) = KeysOf(parameters)
            /\ \A i, j \in 1..Len(result) :
                  i # j => getParameterKey(result[i]) # getParameterKey(result[j])
            /\ \A i \in 1..Len(result) :
                  \E j \in 1..Len(parameters) :
                      /\ result[i] = parameters[j]
                      /\ getParameterKey(parameters[j]) = getParameterKey(result[i])
            /\ Len(result) <= Len(parameters)
            /\ \A i, j \in 1..Len(result) :
                  i < j => FirstIndexOfKey(parameters, getParameterKey(result[i]))
                             < FirstIndexOfKey(parameters, getParameterKey(result[j]))
            /\ ( /\ Len(parameters) = 3
                 /\ getParameterKey(parameters[1]) = getParameterKey(parameters[3])
                 /\ getParameterKey(parameters[1]) # getParameterKey(parameters[2]) )
               => result = << chooseBetterParameter(parameters[1], parameters[3]),
                              parameters[2] >>

\* C2 witness: [A, B, A'] has been deduplicated and the later duplicate A' won,
\* taking A's place in front of B.
C2_Witness ==
    /\ pc = "returned"
    /\ Len(parameters) = 3
    /\ getParameterKey(parameters[1]) = getParameterKey(parameters[3])
    /\ getParameterKey(parameters[1]) # getParameterKey(parameters[2])
    /\ parameters[3] # parameters[1]
    /\ loop.result = << parameters[3], parameters[2] >>

\* C4: once deduplicateParameters has returned, for a reference-form and an
\* inline-form parameter of the input that share an identity key, the result
\* holds a reference-form parameter for that key and does not hold the inline
\* one, whichever of the two came first.
C4_ReferencePriority ==
    pc = "returned" =>
        \A i, j \in 1..Len(parameters) :
            ( /\ IsReference(parameters[i])
              /\ ~IsReference(parameters[j])
              /\ getParameterKey(parameters[i]) = getParameterKey(parameters[j]) )
            => /\ \A m \in 1..Len(loop.result) : loop.result[m] # parameters[j]
               /\ \E m \in 1..Len(loop.result) :
                     /\ IsReference(loop.result[m])
                     /\ getParameterKey(loop.result[m]) = getParameterKey(parameters[i])

\* C4 witness: the inline-form parameter was declared first, the
\* reference-form one of the same key after it, and the result is the
\* reference-form one alone.
C4_Witness ==
    /\ pc = "returned"
    /\ Len(parameters) = 2
    /\ ~IsReference(parameters[1])
    /\ IsReference(parameters[2])
    /\ getParameterKey(parameters[1]) = getParameterKey(parameters[2])
    /\ loop.result = << parameters[2] >>

\* The ranking the preference rule orders by: reference, schema fields,
\* description, fields overall.
Rank(param) ==
    << IF Truthy(param.ref) THEN 1 ELSE 0,
       IF IsSome(param.schema) THEN SchemaKeyCount(Get(param.schema)) ELSE 0,
       IF Truthy(param.description) THEN 1 ELSE 0,
       ParamKeyCount(param) >>

\* r is lexicographically greater than s.
LexGreater(r, s) ==
    \E k \in 1..Len(r) : r[k] > s[k] /\ \A m \in 1..(k - 1) : r[m] = s[m]

\* The earliest position of list whose parameter has this key and no parameter
\* of the key ranks above it.
EarliestMaximal(list, key) ==
    CHOOSE i \in 1..Len(list) :
        /\ getParameterKey(list[i]) = key
        /\ \A j \in 1..Len(list) :
              getParameterKey(list[j]) = key
                => /\ ~LexGreater(Rank(list[j]), Rank(list[i]))
                   /\ (j < i => LexGreater(Rank(list[i]), Rank(list[j])))

\* C5: at every point of the loop the parameter retained for a key is the
\* earliest parameter of that key, among those consumed so far, that is
\* maximal under the lexicographic ranking (reference, schema fields,
\* description, fields overall), and it is the one the result holds at the
\* key's place; a pair is decided for the later one exactly when it ranks
\* strictly above the earlier one.
C5_PreferenceRule ==
    pc \in {"loop", "returned"} =>
        LET consumed == SubSeq(parameters, 1, idx - 1)
        IN  /\ DOMAIN loop.seen = KeysOf(consumed)
            /\ \A key \in KeysOf(consumed) :
                  /\ loop.seen[key] = consumed[EarliestMaximal(consumed, key)]
                  /\ \E m \in 1..Len(loop.result) : loop.result[m] = loop.seen[key]
            /\ (Len(consumed) = 2
                  /\ getParameterKey(consumed[1]) = getParameterKey(consumed[2]))
               => loop.result =
                    << IF LexGreater(Rank(consumed[2]), Rank(consumed[1]))
                       THEN consumed[2] ELSE consumed[1] >>

\* C5 witness: of two parameters of one key the earlier has a description and
\* fewer schema fields, the later no description and more schema fields, and
\* the later one is retained (rule 2 decides, rule 3 is not consulted).
C5_Witness ==
    /\ pc = "returned"
    /\ Len(parameters) = 2
    /\ getParameterKey(parameters[1]) = getParameterKey(parameters[2])
    /\ Truthy(parameters[1].description)
    /\ ~Truthy(parameters[2].description)
    /\ Rank(parameters[2])[2] > Rank(parameters[1])[2]
    /\ loop.result = << parameters[2] >>

(***************************************************************************)
(* Properties of processOpenAPISpec and of main (Spec, SpecTwice).         *)
(***************************************************************************)
\* The document main parsed, as it was before processOpenAPISpec was called.
InputDoc == Get(file.value)

Processed == IsSome(processedSpec)

OutputDoc == Get(heap[Get(processedSpec)])

HasPaths(doc) == IsSome(doc.paths)

\* The positions of the routes of doc that are objects.
Routes(doc) ==
    {i \in 1..Len(OrEmptyList(doc.paths)) : IsSome(Get(doc.paths)[i].item)}

RouteAt(doc, i) == Get(Get(doc.paths)[i].item)

StandardVerbs(pathItem) == (DOMAIN pathItem.ops) \cap HttpMethodSet

\* The operation of the input route that the output route's verb comes from.
SourceOperation(inItem, verb) ==
    IF verb = "post" /\ "post" \notin DOMAIN inItem.ops
    THEN inItem.ops["search"]
    ELSE inItem.ops[verb]

IsInline(param) == ~IsSome(param.ref)

\* C3 as claimed: in the output of processOpenAPISpec no standard-verb
\* operation holds two distinct inline parameters with an equal (in, name)
\* pair, absent or empty in and name included.
C3_IdentityInvariantAllInputs ==
    (Processed /\ HasPaths(InputDoc)) =>
        \A r \in Routes(OutputDoc) :
            \A verb \in StandardVerbs(RouteAt(OutputDoc, r)) :
                LET list == OrEmptyList(RouteAt(OutputDoc, r).ops[verb].parameters)
                IN  \A i, j \in 1..Len(list) :
                        (i # j /\ IsInline(list[i]) /\ IsInline(list[j]))
                        => ~(list[i].in = list[j].in /\ list[i].name = list[j].name)

\* C3 as amended: in the output of processOpenAPISpec no standard-verb
\* operation holds two distinct inline parameters with an equal (in, name)
\* pair whose in and name are both present and non-empty.
C3_IdentityInvariant ==
    (Processed /\ HasPaths(InputDoc)) =>
        \A r \in Routes(OutputDoc) :
            \A verb \in StandardVerbs(RouteAt(OutputDoc, r)) :
                LET list == OrEmptyList(RouteAt(OutputDoc, r).ops[verb].parameters)
                IN  \A i, j \in 1..Len(list) :
                        ( /\ i # j /\ IsInline(list[i]) /\ IsInline(list[j])
                          /\ Truthy(list[i].in) /\ Truthy(list[i].name) )
                        => ~(list[i].in = list[j].in /\ list[i].name = list[j].name)

\* C3 witness: a route declared an inline parameter at path level and its
\* operation another one with the same non-empty (in, name) and a different
\* schema, and the processed operation holds one parameter.
C3_Witness ==
    /\ Processed /\ HasPaths(InputDoc)
    /\ \E r \in Routes(InputDoc) :
          LET inItem == RouteAt(InputDoc, r)
          IN  /\ "get" \in DOMAIN inItem.ops
              /\ Len(OrEmptyList(inItem.parameters)) = 1
              /\ Len(OrEmptyList(inItem.ops["get"].parameters)) = 1
              /\ LET a == Get(inItem.parameters)[1]
                     b == Get(inItem.ops["get"].parameters)[1]
                 IN  /\ IsInline(a) /\ IsInline(b)
                     /\ Truthy(a.in) /\ Truthy(a.name)
                     /\ a.in = b.in /\ a.name = b.name
                     /\ a.schema # b.schema
              /\ Len(OrEmptyList(RouteAt(OutputDoc, r).ops["get"].parameters)) = 1

\* C6: for every route of the input, with search and without post the output
\* route has the former search operation as post, processed like every
\* standard verb, and no search; with both it has the original post,
\* processed, and no search; without search it has the same verbs.
C6_SearchNormalization ==
    (Processed /\ HasPaths(InputDoc)) =>
        \A r \in Routes(InputDoc) :
            LET inItem  == RouteAt(InputDoc, r)
                outItem == RouteAt(OutputDoc, r)
                inVerbs  == DOMAIN inItem.ops
                outVerbs == DOMAIN outItem.ops
                pathParameters == OrEmptyList(inItem.parameters)
            IN  /\ ("search" \in inVerbs /\ "post" \notin inVerbs)
                   => /\ outVerbs = (inVerbs \ {"search"}) \cup {"post"}
                      /\ outItem.ops["post"].id = inItem.ops["search"].id
                      /\ outItem.ops["post"]
                           = processOperation(inItem.ops["search"], pathParameters)
                /\ ("search" \in inVerbs /\ "post" \in inVerbs)
                   => /\ outVerbs = inVerbs \ {"search"}
                      /\ outItem.ops["post"].id = inItem.ops["post"].id
                      /\ outItem.ops["post"]
                           = processOperation(inItem.ops["post"], pathParameters)
                /\ "search" \notin inVerbs => outVerbs = inVerbs

\* C6 witness: a route with search, get and no post came out with post and
\* get, the post being the former search.
C6_Witness ==
    /\ Processed /\ HasPaths(InputDoc)
    /\ \E r \in Routes(InputDoc) :
          /\ DOMAIN RouteAt(InputDoc, r).ops = {"search", "get"}
          /\ DOMAIN RouteAt(OutputDoc, r).ops = {"post", "get"}
          /\ RouteAt(OutputDoc, r).ops["post"].id = RouteAt(InputDoc, r).ops["search"].id

\* C7: the document handed to processOpenAPISpec is, at every later point of
\* the run, structurally what was parsed.
C7_InputNotMutated ==
    SpecAddr \in DOMAIN heap => heap[SpecAddr] = file.value

\* C7 witness: processOpenAPISpec has returned a document that differs from
\* its input both in a route's verbs and in an operation's parameters.
C7_Witness ==
    /\ Processed /\ HasPaths(InputDoc)
    /\ Get(processedSpec) # SpecAddr
    /\ \E r \in Routes(InputDoc) :
          /\ DOMAIN RouteAt(OutputDoc, r).ops # DOMAIN RouteAt(InputDoc, r).ops
          /\ \E verb \in DOMAIN RouteAt(InputDoc, r).ops :
                /\ verb \in DOMAIN RouteAt(OutputDoc, r).ops
                /\ RouteAt(OutputDoc, r).ops[verb].parameters
                     # RouteAt(InputDoc, r).ops[verb].parameters

\* C8: in the output of processOpenAPISpec a standard-verb operation has a
\* parameters field exactly when the route's parameters followed by its own
\* are at least one, and the field is then not empty.
C8_EmptyListRemoval ==
    (Processed /\ HasPaths(InputDoc)) =>
        \A r \in Routes(OutputDoc) :
            \A verb \in StandardVerbs(RouteAt(OutputDoc, r)) :
                LET own  == SourceOperation(RouteAt(InputDoc, r), verb).parameters
                    path == RouteAt(InputDoc, r).parameters
                    out  == RouteAt(OutputDoc, r).ops[verb].parameters
                IN  /\ IsSome(out) <=> Len(OrEmptyList(path)) + Len(OrEmptyList(own)) > 0
                    /\ IsSome(out) => Len(Get(out)) > 0

\* C8 witness: an operation that declared an explicit empty list on a route
\* without parameters came out without the field.
C8_Witness ==
    /\ Processed /\ HasPaths(InputDoc)
    /\ \E r \in Routes(InputDoc) :
          /\ "get" \in DOMAIN RouteAt(InputDoc, r).ops
          /\ RouteAt(InputDoc, r).ops["get"].parameters = Some(<< >>)
          /\ Len(OrEmptyList(RouteAt(InputDoc, r).parameters)) = 0
          /\ RouteAt(OutputDoc, r).ops["get"].parameters = None

\* C9 as claimed: the output is written only after read, parse and transform
\* have succeeded, a run that ends with status 1 has written no output, and a
\* run whose write completed does not end with status 1.
C9_AllOrNothing ==
    /\ IsSome(output) => Processed
    /\ exitCode = Some(1) => ~IsSome(output)

\* The parameters given to deduplicateParameters over the document: for every
\* standard-verb operation of every route, after the search handling, the
\* route's count plus the operation's own.
GivenToDeduplicator(doc) ==
    SumSeq([r \in 1..Len(OrEmptyList(doc.paths)) |->
        LET ops == RenameOrDropSearch(RouteAt(doc, r).ops)
        IN  SumSeq([i \in 1..Len(httpMethods) |->
                IF httpMethods[i] \in DOMAIN ops
                THEN Len(OrEmptyList(RouteAt(doc, r).parameters))
                       + Len(OrEmptyList(ops[httpMethods[i]].parameters))
                ELSE 0])])

\* The parameters deduplicateParameters returned over the document.
ReturnedByDeduplicator(doc) ==
    SumSeq([r \in 1..Len(OrEmptyList(doc.paths)) |->
        SumSeq([i \in 1..Len(httpMethods) |->
            IF httpMethods[i] \in DOMAIN RouteAt(doc, r).ops
            THEN Len(OrEmptyList(RouteAt(doc, r).ops[httpMethods[i]].parameters))
            ELSE 0])])

\* C10 as claimed: in the summary 'before' is the number of parameters given
\* to the deduplicator, 'after' the number it returned, and before - after is
\* not negative.
C10_ReportedCounts ==
    pc = "done" =>
        /\ totalParamsBefore = GivenToDeduplicator(InputDoc)
        /\ totalParamsAfter = ReturnedByDeduplicator(OutputDoc)
        /\ totalParamsBefore - totalParamsAfter >= 0

\* C1: processOpenAPISpec applied to its own output returns a document
\* structurally equal to that output, and no route of either has a search.
C1_Idempotence ==
    pc = "twice" =>
        LET once  == Get(heap[Get(processedSpec)])
            twice == Get(heap[Get(reprocessedSpec)])
        IN  /\ twice = once
            /\ \A r \in Routes(once) : "search" \notin DOMAIN RouteAt(once, r).ops
            /\ \A r \in Routes(twice) : "search" \notin DOMAIN RouteAt(twice, r).ops

\* C1 witness: both passes are done on a route with path-level parameters, one
\* of whose operations lost a duplicate in the first pass to a later, more
\* complete declaration.
C1_Witness ==
    /\ pc = "twice"
    /\ HasPaths(InputDoc)
    /\ \E r \in Routes(InputDoc) :
          LET inItem == RouteAt(InputDoc, r)
              once   == RouteAt(Get(heap[Get(processedSpec)]), r)
          IN  /\ Len(OrEmptyList(inItem.parameters)) > 0
              /\ \E verb \in StandardVerbs(inItem) :
                    /\ Len(OrEmptyList(once.ops[verb].parameters))
                         < Len(OrEmptyList(inItem.parameters))
                             + Len(OrEmptyList(inItem.ops[verb].parameters))
                    /\ once.ops[verb].parameters[1][1] # inItem.parameters[1][1]

====
